---------------------------- MODULE Spec2Model ----------------------------
(***************************************************************************)
(* Build validator (src/unnamed/part_000, class BuildValidator) and build  *)
(* fixer (src/scripts/fix-build-issues.js, class BuildFixer) working on    *)
(* one project tree.                                                       *)
(*                                                                         *)
(* Text is a sequence of lexemes (TLA+ strings cannot be indexed): a file  *)
(* content is the sequence of its lexemes with "\n" as the line break, a   *)
(* path is a sequence of components, each a sequence of chunks, where the  *)
(* chunk ".ts" is the substring the code searches for (".tsx" is the two   *)
(* chunks ".ts","x").  Every regular expression of the source is an        *)
(* operator that searches the lexeme sequence as the expression searches   *)
(* the characters.                                                         *)
(***************************************************************************)
EXTENDS Integers, Sequences, FiniteSets, TLC

\* ------------------------------------------------------------------ bounds
MaxFixRuns == 2      \* fix commands the user issues in one behaviour
MaxFiles == 2        \* source files of an initial tree (Spec)
MaxLines == 3        \* lines of a generated route file (SpecRoute)
MaxEnvRefs == 3      \* references of a generated source file (SpecEnv)
MaxEnvLines == 2     \* lines of a generated .env.example (SpecEnv)
MaxJsxLex == 3       \* lexemes of a generated source file (SpecJsx)

\* ------------------------------------------------------------ text helpers
NL == "\n"
Ws == {" ", NL}

Range(s) == {s[i] : i \in 1..Len(s)}
Contains(c, S) == \E i \in 1..Len(c) : c[i] \in S
Max(S) == CHOOSE x \in S : \A y \in S : y <= x
Min(S) == CHOOSE x \in S : \A y \in S : x <= y

\* index of the first lexeme at or after i that is not white space (\s*)
RECURSIVE SkipWs(_, _)
SkipWs(c, i) == IF i <= Len(c) /\ c[i] \in Ws THEN SkipWs(c, i + 1) ELSE i

\* content.split('\n')
RECURSIVE Split(_)
Split(c) ==
  IF ~Contains(c, {NL}) THEN <<c>>
  ELSE LET i == Min({k \in 1..Len(c) : c[k] = NL})
       IN <<SubSeq(c, 1, i - 1)>> \o Split(SubSeq(c, i + 1, Len(c)))

\* lines.join('\n')
RECURSIVE Join(_)
Join(lines) ==
  IF Len(lines) = 0 THEN <<>>
  ELSE IF Len(lines) = 1 THEN lines[1]
  ELSE lines[1] \o <<NL>> \o Join(Tail(lines))

\* lines.splice(idx, 0, ...ins)
Splice(lines, idx, ins) ==
  SubSeq(lines, 1, idx) \o ins \o SubSeq(lines, idx + 1, Len(lines))

\* all sequences over S of length at most n
RECURSIVE SeqsUpTo(_, _)
SeqsUpTo(S, n) ==
  IF n = 0 THEN {<<>>}
  ELSE LET T == SeqsUpTo(S, n - 1)
       IN T \cup {Append(t, x) : t \in {u \in T : Len(u) = n - 1}, x \in S}

\* concatenation of a sequence of sequences
RECURSIVE Flatten(_)
Flatten(ss) == IF Len(ss) = 0 THEN <<>> ELSE ss[1] \o Flatten(Tail(ss))


\* ------------------------------------------------------- route handler rule
\* lexemes in which the source's patterns occur
FetchLex == {"fetch("}                         \* /fetch\(/
FsLex == {"fs."}                               \* /fs\./
DatabaseLex == {"database"}                    \* /database/
PrismaLex == {"prisma"}                        \* /prisma/
MongooseLex == {"mongoose"}                    \* /mongoose/
ProcessEnvLex == {"process.env", "process.env."}   \* /process\.env/
DynamicHead == "export const dynamic ="
ForceDynamicLex == {"'force-dynamic'", "\"force-dynamic\""}

\* fixer: needsDynamic
FixerNeedsDynamic(content) ==
  \/ Contains(content, FetchLex)
  \/ Contains(content, FsLex)
  \/ Contains(content, DatabaseLex)
  \/ Contains(content, ProcessEnvLex)

\* validator: needsDynamic
ValidatorNeedsDynamic(content) ==
  \/ Contains(content, FetchLex)
  \/ Contains(content, FsLex)
  \/ Contains(content, DatabaseLex)
  \/ Contains(content, PrismaLex)
  \/ Contains(content, MongooseLex)
  \/ Contains(content, ProcessEnvLex)

\* /export\s+const\s+dynamic\s*=\s*['"]force-dynamic['"]/ (same in both files)
HasDynamic(content) ==
  \E i \in 1..Len(content) :
     /\ content[i] = DynamicHead
     /\ LET j == SkipWs(content, i + 1)
        IN j <= Len(content) /\ content[j] \in ForceDynamicLex

\* lines[i].startsWith('import ')
StartsWithImport(line) == Len(line) > 0 /\ line[1] = "import "

\* the loop "find last import statement": insertIndex
InsertIndex(lines) ==
  LET S == {i \in 1..Len(lines) : StartsWithImport(lines[i])}
  IN IF S = {} THEN 0 ELSE Max(S)

\* the three lines spliced in
DynamicLines ==
  << <<>>,
     <<"// Force dynamic rendering for runtime operations">>,
     <<DynamicHead, " ", "'force-dynamic'", ";">> >>

\* a fixer that splices in the comment and forgets the export
InsertCommentOnly(content) ==
  LET lines == Split(content)
  IN Join(Splice(lines, InsertIndex(lines), SubSeq(DynamicLines, 1, 2)))

\* the content fixApiRoutes writes for a file it fixes
InsertDynamic(content) ==
  LET lines == Split(content)
  IN Join(Splice(lines, InsertIndex(lines), DynamicLines))

FixerRouteFinding(content) == FixerNeedsDynamic(content) /\ ~HasDynamic(content)
ValidatorRouteFinding(content) == ValidatorNeedsDynamic(content) /\ ~HasDynamic(content)

\* ------------------------------------------------------------- JSX rule
UpperTagOpen == {"<Foo"}                       \* "<" and an uppercase letter
UpperTagClose == {"</Foo"}                     \* "</" and an uppercase letter
LtLex == {"<Foo", "</Foo", "<div", "</div", "<reference", "< ", "<>", "</>"}   \* begin with "<"
GtLex == {">", "/>", "=>", "<>", "</>"}        \* contain ">"
AngleLex == LtLex \cup GtLex                   \* contain "<" or ">"
ReactLex == {"React", "React.ReactNode"}       \* contain "React"
ReactDotLex == {"React.ReactNode"}             \* contain "React."

\* [^>]*> after the "<" that begins lexeme k
TailGt(c, k) == c[k] \in {"<>", "</>"} \/ \E j \in (k + 1)..Len(c) : c[j] \in GtLex

PatComponentTag(c) == \E i \in 1..Len(c) : c[i] \in UpperTagOpen /\ TailGt(c, i)
PatClosingTag(c) == \E i \in 1..Len(c) : c[i] \in UpperTagClose /\ TailGt(c, i)
PatFragment(c) == Contains(c, {"<>"})
PatClosingFragment(c) == Contains(c, {"</>"})
\* /return\s+<[^>]*>/
PatReturnJsx(c) ==
  \E i \in 1..Len(c) :
     /\ c[i] = "return"
     /\ LET j == SkipWs(c, i + 1)
        IN j > i + 1 /\ j <= Len(c) /\ c[j] \in LtLex /\ TailGt(c, j)
\* /\)\s*=>\s*</
PatArrowJsx(c) ==
  \E i \in 1..Len(c) :
     /\ c[i] = ")"
     /\ LET j == SkipWs(c, i + 1)
        IN /\ j <= Len(c) /\ c[j] = "=>"
           /\ LET k == SkipWs(c, j + 1) IN k <= Len(c) /\ c[k] \in LtLex
PatReactNode(c) == Contains(c, {"React.ReactNode"})
\* /children:\s*React/
PatChildrenProp(c) ==
  \E i \in 1..Len(c) :
     /\ c[i] = "children:"
     /\ LET j == SkipWs(c, i + 1) IN j <= Len(c) /\ c[j] \in ReactLex

\* validator: the jsxPatterns loop
ValidatorHasJsx(c) ==
  \/ PatComponentTag(c)
  \/ PatClosingTag(c)
  \/ PatFragment(c)
  \/ PatClosingFragment(c)
  \/ PatReturnJsx(c)
  \/ PatArrowJsx(c)
  \/ PatReactNode(c)
  \/ PatChildrenProp(c)

\* validator: /React\.|<[A-Z]/
UsesReact(c) == Contains(c, ReactDotLex \cup UpperTagOpen)

\* validator: /import\s+.*React.*from\s+['"]react['"]/ ("." stays on one line)
ValidatorHasReactImport(c) ==
  \E n \in 1..Len(Split(c)) :
     LET l == Split(c)[n]
     IN \E i, j, k \in 1..Len(l) :
           i < j /\ j < k /\ l[i] = "import " /\ l[j] \in ReactLex /\ l[k] = "from 'react'"

\* fixer: hasJsx
FixerHasJsx(c) ==
  \/ PatComponentTag(c)
  \/ Contains(c, UpperTagClose)
  \/ PatFragment(c)
  \/ PatClosingFragment(c)

\* fixer: /import.*React/
FixerHasReactImport(c) ==
  \E n \in 1..Len(Split(c)) :
     LET l == Split(c)[n]
     IN \E i, j \in 1..Len(l) : i < j /\ l[i] = "import " /\ l[j] \in ReactLex

\* fixer: /return\s*\(/
ReturnParen(c) ==
  \E i \in 1..Len(c) :
     c[i] = "return" /\ LET j == SkipWs(c, i + 1) IN j <= Len(c) /\ c[j] = "("

\* fixer: the condition of the rename
FixerShouldRename(c) == FixerHasJsx(c) \/ (FixerHasReactImport(c) /\ ReturnParen(c))

\* ------------------------------------------------- environment variable rule
EnvHead == "process.env."
UpperNames == {"API_KEY", "SECRET_TOKEN", "NEXT_PUBLIC_URL"}   \* match [A-Z_]+
NextPublicNames == {"NEXT_PUBLIC_URL"}         \* varName.startsWith('NEXT_PUBLIC_')

\* findEnvUsage: every match of /process\.env\.([A-Z_]+)/g, in order
RECURSIVE FindEnvUsage(_)
FindEnvUsage(c) ==
  IF Len(c) < 2 THEN <<>>
  ELSE IF c[1] = EnvHead /\ c[2] \in UpperNames
       THEN <<c[2]>> \o FindEnvUsage(SubSeq(c, 3, Len(c)))
       ELSE FindEnvUsage(Tail(c))

\* a line of .env.example is a sequence of lexemes; "=" separates name and value
\* line.split('=')[0]: the lexemes before the first "="
BeforeEquals(line) ==
  IF Contains(line, {"="})
  THEN SubSeq(line, 1, Min({k \in 1..Len(line) : line[k] = "="}) - 1)
  ELSE line

\* requiredVars: split, filter(line && !line.startsWith('#')), map(split('=')[0])
RequiredVars(envExample) ==
  LET lines == Split(envExample)
      kept == SelectSeq(lines, LAMBDA l : Len(l) > 0 /\ l[1] # "#")
  IN [i \in 1..Len(kept) |-> BeforeEquals(kept[i])]

\* requiredVars.includes(varName): the entry is exactly the name
Declared(required, varName) == \E i \in 1..Len(required) : required[i] = <<varName>>

\* the warnings of one file: the loop over usedVars
EnvWarnings(required, usedVars) ==
  SelectSeq(usedVars, LAMBDA v : ~Declared(required, v) /\ v \notin NextPublicNames)

\* ------------------------------------------------------------------ paths
\* A path is relative to process.cwd(), which is taken to hold no ".ts".
DotChunks == {".ts", ".js", ".d", ".test", ".config", ".hidden"}   \* begin with "."
SrcDir == << <<"src">> >>
ApiDir == << <<"src">>, <<"app">>, <<"api">> >>
NextEnvPath == << <<"next-env", ".d", ".ts">> >>
ConfigDir == << <<"src">>, <<"config">> >>
ConfigIndexPath == << <<"src">>, <<"config">>, <<"index", ".ts">> >>

Basename(p) == p[Len(p)]
Dirname(p) == SubSeq(p, 1, Len(p) - 1)
IsPrefix(d, p) == Len(d) <= Len(p) /\ SubSeq(p, 1, Len(d)) = d

\* item.endsWith(suffix), suffix given as chunks
EndsWith(item, suffix) ==
  Len(item) >= Len(suffix) /\ SubSeq(item, Len(item) - Len(suffix) + 1, Len(item)) = suffix

\* item.startsWith('.')
IsHidden(item) == Len(item) > 0 /\ item[1] \in DotChunks

\* a directory the walkers of src descend into
Descends(item) == ~IsHidden(item) /\ item # <<"node_modules">>

\* the file test of findTsFiles (the same in both files)
IsTsItem(item) ==
  /\ EndsWith(item, <<".ts">>)
  /\ ~EndsWith(item, <<".d", ".ts">>)
  /\ ~EndsWith(item, <<".test", ".ts">>)

\* the file test of findRouteFiles (the same in both files)
IsRouteItem(item) == item = <<"route", ".ts">> \/ item = <<"route", ".ts", "x">>

\* the file test of checkDir
IsEnvScanned(item) ==
  EndsWith(item, <<".ts">>) \/ EndsWith(item, <<".ts", "x">>) \/ EndsWith(item, <<".js">>)

\* every directory between src and the file is one the walker descends into
UnderSrc(p) ==
  /\ Len(p) >= 2 /\ IsPrefix(SrcDir, p)
  /\ \A k \in 2..(Len(p) - 1) : Descends(p[k])

\* fs.existsSync(dir): a directory is there when a file lies below it
DirExists(disk, d) == d = <<>> \/ \E p \in DOMAIN disk : Len(p) > Len(d) /\ IsPrefix(d, p)

\* findTsFiles(srcDir), findRouteFiles(apiDir), the files checkDir reads
FindTsFiles(disk) == {p \in DOMAIN disk : UnderSrc(p) /\ IsTsItem(Basename(p))}
FindRouteFiles(disk) ==
  {p \in DOMAIN disk : Len(p) >= 4 /\ IsPrefix(ApiDir, p) /\ IsRouteItem(Basename(p))}
FindEnvFiles(disk) == {p \in DOMAIN disk : UnderSrc(p) /\ IsEnvScanned(Basename(p))}

\* file.includes('.config.')
IncludesConfig(p) ==
  \E n \in 1..Len(p) : \E k \in 1..(Len(p[n]) - 1) :
     p[n][k] = ".config" /\ p[n][k + 1] \in DotChunks

\* file.replace('.ts', '.tsx'): the first ".ts" of the whole path
ReplaceFirstTs(p) ==
  LET C == {n \in 1..Len(p) : Contains(p[n], {".ts"})}
  IN IF C = {} THEN p
     ELSE LET n == Min(C)
              i == Min({k \in 1..Len(p[n]) : p[n][k] = ".ts"})
          IN [p EXCEPT ![n] = SubSeq(p[n], 1, i) \o <<"x">> \o SubSeq(p[n], i + 1, Len(p[n]))]

\* the orders in which readdirSync may list a set of files
Orders(S) == {o \in [1..Cardinality(S) -> S] : \A i, j \in DOMAIN o : i # j => o[i] # o[j]}

\* fs.writeFileSync(p, content)
WriteFile(disk, p, content) == [q \in DOMAIN disk \cup {p} |-> IF q = p THEN content ELSE disk[q]]

\* fs.renameSync(from, to), when it succeeds: an existing file at "to" is replaced
RenameFile(disk, from, to) ==
  [q \in (DOMAIN disk \ {from}) \cup {to} |-> IF q = to THEN disk[from] ELSE disk[q]]

\* fs.renameSync(from, to) throws: no directory to put it in, or "to" is a directory
RenameThrows(disk, from, to) == ~DirExists(disk, Dirname(to)) \/ DirExists(disk, to)

\* ------------------------------------------------------------------ state
VARIABLES
  fs,          \* the source files of the tree: path -> content
  pkg,         \* package.json: [state, dependencies, devDependencies, scripts, emptyVersion]
  tsconfig,    \* tsconfig.json: [state, options, alias]
  envExample,  \* .env.example: [exists, content]
  cmd,         \* the command that runs or ran last: "none", "validate", "fix"
  pc,          \* its position: "idle", the method about to be called, "exited"
  errors,      \* BuildValidator.errors
  warnings,    \* BuildValidator.warnings
  vfixes,      \* BuildValidator.fixes
  fixes,       \* BuildFixer.fixes
  out,         \* the section headers and the closing part printed by the command
  exitCode,    \* the status of the process once it has exited, -1 before
  ops,         \* the writes and renames the fix command has made, with the step
  fs0,         \* the source files as they were when the last fix command started
  fixRuns      \* fix commands started so far

vars == <<fs, pkg, tsconfig, envExample, cmd, pc, errors, warnings, vfixes, fixes,
          out, exitCode, ops, fs0, fixRuns>>

\* An uncaught exception rejects the promise of the async method, the then() callback
\* with process.exit never runs, and the status is the runtime's: 1 where an unhandled
\* rejection ends the process, 0 where it only warns.
CrashCodes == {0, 1}

NoFile == <<>>
Finding(rule, file) == [rule |-> rule, file |-> file]
Warning(rule, file, var) == [rule |-> rule, file |-> file, var |-> var]

StartValidate ==
  /\ pc \in {"idle", "exited"}
  /\ cmd' = "validate"
  /\ pc' = "checkJsxInTsFiles"
  /\ errors' = <<>> /\ warnings' = <<>> /\ vfixes' = <<>> /\ fixes' = <<>>
  /\ out' = <<>> /\ exitCode' = -1 /\ ops' = <<>>
  /\ UNCHANGED <<fs, pkg, tsconfig, envExample, fs0, fixRuns>>

\* the run stops on an exception thrown by a check or a fix
Throw ==
  /\ pc' = "exited"
  /\ \E code \in CrashCodes : exitCode' = code

\* ------------------------------------------------------------ the validator
\* addError(message, fix) of the file loop of checkJsxInTsFiles, for the files in order
JsxErrors(order) ==
  LET hit == SelectSeq(order, LAMBDA f : ValidatorHasJsx(fs[f]))
  IN [i \in 1..Len(hit) |-> Finding("jsx", hit[i])]

\* addWarning of the same loop
ReactWarnings(order) ==
  LET hit == SelectSeq(order, LAMBDA f :
                 /\ ~ValidatorHasJsx(fs[f])
                 /\ UsesReact(fs[f]) /\ ~ValidatorHasReactImport(fs[f])
                 /\ ~IncludesConfig(f))
  IN [i \in 1..Len(hit) |-> Warning("react-import", hit[i], "")]

CheckJsxInTsFiles ==
  /\ cmd = "validate" /\ pc = "checkJsxInTsFiles"
  /\ out' = Append(out, "jsx")
  /\ pc' = "checkApiRoutesDynamic"
  /\ IF ~DirExists(fs, SrcDir)
     THEN UNCHANGED <<errors, warnings, vfixes>>
     ELSE \E order \in Orders(FindTsFiles(fs)) :
            /\ errors' = errors \o JsxErrors(order)
            /\ vfixes' = vfixes \o JsxErrors(order)
            /\ warnings' = warnings \o ReactWarnings(order)
  /\ UNCHANGED <<fs, pkg, tsconfig, envExample, cmd, fixes, exitCode, ops, fs0, fixRuns>>

RouteErrors(order) ==
  LET hit == SelectSeq(order, LAMBDA f : ValidatorRouteFinding(fs[f]))
  IN [i \in 1..Len(hit) |-> Finding("route-dynamic", hit[i])]

CheckApiRoutesDynamic ==
  /\ cmd = "validate" /\ pc = "checkApiRoutesDynamic"
  /\ out' = Append(out, "routes")
  /\ pc' = "checkTypeScriptConfig"
  /\ IF ~DirExists(fs, ApiDir)
     THEN UNCHANGED <<errors, vfixes>>
     ELSE \E order \in Orders(FindRouteFiles(fs)) :
            /\ errors' = errors \o RouteErrors(order)
            /\ vfixes' = vfixes \o RouteErrors(order)
  /\ UNCHANGED <<fs, pkg, tsconfig, envExample, cmd, warnings, fixes, exitCode, ops,
                 fs0, fixRuns>>

\* the three option checks, in the order of the source
OptionWarnings(options) ==
  LET all == <<"jsx", "strict", "moduleResolution">>
      miss == SelectSeq(all, LAMBDA o : o \notin options)
  IN [i \in 1..Len(miss) |-> Warning(miss[i], NoFile, "")]

CheckTypeScriptConfig ==
  /\ cmd = "validate" /\ pc = "checkTypeScriptConfig"
  /\ out' = Append(out, "tsconfig")
  /\ IF tsconfig.state = "missing"
     THEN /\ errors' = Append(errors, Finding("tsconfig", NoFile))
          /\ vfixes' = Append(vfixes, Finding("tsconfig", NoFile))
          /\ pc' = "checkEnvironmentVariables"
          /\ UNCHANGED <<warnings, exitCode>>
     ELSE IF tsconfig.state = "malformed"
     THEN Throw /\ UNCHANGED <<errors, vfixes, warnings>>
     ELSE /\ warnings' = warnings \o OptionWarnings(tsconfig.options)
          /\ pc' = "checkEnvironmentVariables"
          /\ UNCHANGED <<errors, vfixes, exitCode>>
  /\ UNCHANGED <<fs, pkg, tsconfig, envExample, cmd, fixes, ops, fs0, fixRuns>>

\* the warnings of checkDir for the files in order: one per element of usedVars
RECURSIVE EnvDirWarnings(_, _)
EnvDirWarnings(order, required) ==
  IF Len(order) = 0 THEN <<>>
  ELSE LET f == Head(order)
           w == EnvWarnings(required, FindEnvUsage(fs[f]))
       IN [i \in 1..Len(w) |-> Warning("env", f, w[i])]
          \o EnvDirWarnings(Tail(order), required)

CheckEnvironmentVariables ==
  /\ cmd = "validate" /\ pc = "checkEnvironmentVariables"
  /\ out' = Append(out, "env")
  /\ pc' = "checkPackageScripts"
  /\ IF ~envExample.exists
     THEN warnings' = Append(warnings, Warning("env-example", NoFile, ""))
     ELSE IF ~DirExists(fs, SrcDir)
     THEN UNCHANGED warnings
     ELSE \E order \in Orders(FindEnvFiles(fs)) :
            warnings' = warnings \o EnvDirWarnings(order, RequiredVars(envExample.content))
  /\ UNCHANGED <<fs, pkg, tsconfig, envExample, cmd, errors, vfixes, fixes, exitCode,
                 ops, fs0, fixRuns>>

\* requiredScripts, then the type checking script
ScriptWarnings(scripts) ==
  LET all == <<"dev", "build", "start", "lint">>
      miss == SelectSeq(all, LAMBDA n : n \notin scripts)
  IN [i \in 1..Len(miss) |-> Warning("script", NoFile, miss[i])]
     \o (IF "typecheck" \notin scripts /\ "type-check" \notin scripts
         THEN <<Warning("typecheck-script", NoFile, "")>> ELSE <<>>)

CheckPackageScripts ==
  /\ cmd = "validate" /\ pc = "checkPackageScripts"
  /\ out' = Append(out, "scripts")
  /\ IF pkg.state = "missing"
     THEN /\ errors' = Append(errors, Finding("package-json", NoFile))
          /\ pc' = "checkDependencies"
          /\ UNCHANGED <<warnings, exitCode>>
     ELSE IF pkg.state = "malformed"
     THEN Throw /\ UNCHANGED <<errors, warnings>>
     ELSE /\ warnings' = warnings \o ScriptWarnings(pkg.scripts)
          /\ pc' = "checkDependencies"
          /\ UNCHANGED <<errors, exitCode>>
  /\ UNCHANGED <<fs, pkg, tsconfig, envExample, cmd, vfixes, fixes, ops, fs0, fixRuns>>

\* deps = { ...dependencies, ...devDependencies }, then the two type definition checks
DepWarnings(deps) ==
  (IF "react" \in deps /\ "@types/react" \notin deps
   THEN <<Warning("types-react", NoFile, "")>> ELSE <<>>)
  \o (IF "react-dom" \in deps /\ "@types/react-dom" \notin deps
      THEN <<Warning("types-react-dom", NoFile, "")>> ELSE <<>>)

CheckDependencies ==
  /\ cmd = "validate" /\ pc = "checkDependencies"
  /\ out' = Append(out, "dependencies")
  /\ IF pkg.state = "missing"
     THEN pc' = "checkEslintViolations" /\ UNCHANGED <<warnings, exitCode>>
     ELSE IF pkg.state = "malformed"
     THEN Throw /\ UNCHANGED warnings
     ELSE /\ warnings' = warnings \o DepWarnings(pkg.dependencies \cup pkg.devDependencies)
          /\ pc' = "checkEslintViolations"
          /\ UNCHANGED exitCode
  /\ UNCHANGED <<fs, pkg, tsconfig, envExample, cmd, errors, vfixes, fixes, ops, fs0,
                 fixRuns>>

\* What the linter can answer: it passes, or it fails and its output holds some of the
\* three complaints the validator searches for (none of them: the failure is dropped).
LintComplaints == {"unused", "any", "curly"}
LintOutcomes == [passed : {TRUE}, output : {{}}] \cup [passed : {FALSE}, output : SUBSET LintComplaints]

\* the three output.includes tests, in the order of the source
LintErrors(output) ==
  LET all == <<"unused", "any", "curly">>
      hit == SelectSeq(all, LAMBDA n : n \in output)
  IN [i \in 1..Len(hit) |-> Finding(hit[i], NoFile)]

CheckEslintViolations ==
  /\ cmd = "validate" /\ pc = "checkEslintViolations"
  /\ out' = Append(out, "eslint")
  /\ pc' = "report"
  /\ \E lint \in LintOutcomes :
        IF lint.passed
        THEN UNCHANGED <<errors, vfixes>>
        ELSE /\ errors' = errors \o LintErrors(lint.output)
             /\ vfixes' = vfixes \o LintErrors(lint.output)
  /\ UNCHANGED <<fs, pkg, tsconfig, envExample, cmd, warnings, fixes, exitCode, ops,
                 fs0, fixRuns>>

\* a validator that fails the run on any finding
ExitStatusAnyFinding(errs, warns) ==
  IF Len(errs) = 0 /\ Len(warns) = 0 THEN 0 ELSE 1

\* the value validate() returns, which process.exit receives
ExitStatus(errs, warns) ==
  IF Len(errs) = 0 /\ Len(warns) = 0 THEN 0
  ELSE IF Len(errs) > 0 THEN 1 ELSE 0

\* the rest of validate(): the report, then the exit with the status returned
Report ==
  /\ cmd = "validate" /\ pc = "report"
  /\ out' = Append(out, "report")
  /\ exitCode' = ExitStatus(errors, warnings)
  /\ pc' = "exited"
  /\ UNCHANGED <<fs, pkg, tsconfig, envExample, cmd, errors, warnings, vfixes, fixes,
                 ops, fs0, fixRuns>>

\* ---------------------------------------------------------------- the fixer
PackageJsonPath == << <<"package", ".json">> >>
TsconfigPath == << <<"tsconfig", ".json">> >>

NextEnvTemplate ==
  <<"///", " ", "<reference", " ", "types=\"next\"", " ", "/>", NL,
    "///", " ", "<reference", " ", "types=\"next/image-types/global\"", " ", "/>", NL,
    NL,
    "// NOTE: This file should not be edited", NL,
    "// see https://nextjs.org/docs/basic-features/typescript for more information.", NL>>

ConfigIndexTemplate ==
  <<"// Config barrel export", NL,
    "export { featureFlags, useFeatureFlag, FeatureFlag } from './flags';", NL,
    "export { env, validateEnv } from './env';", NL>>

Op(step, kind, path, to) == [step |-> step, kind |-> kind, path |-> path, to |-> to]

StartFix ==
  /\ pc \in {"idle", "exited"}
  /\ fixRuns < MaxFixRuns
  /\ fixRuns' = fixRuns + 1
  /\ cmd' = "fix"
  /\ pc' = "fixNextEnv"
  /\ errors' = <<>> /\ warnings' = <<>> /\ vfixes' = <<>> /\ fixes' = <<>>
  /\ out' = <<>> /\ exitCode' = -1 /\ ops' = <<>>
  /\ fs0' = fs
  /\ UNCHANGED <<fs, pkg, tsconfig, envExample>>

FixNextEnv ==
  /\ cmd = "fix" /\ pc = "fixNextEnv"
  /\ out' = Append(out, "next-env")
  /\ pc' = "fixConfigExports"
  /\ IF NextEnvPath \notin DOMAIN fs
     THEN /\ fs' = WriteFile(fs, NextEnvPath, NextEnvTemplate)
          /\ ops' = Append(ops, Op("fixNextEnv", "write", NextEnvPath, NoFile))
          /\ fixes' = Append(fixes, "Created Next.js TypeScript declarations")
     ELSE UNCHANGED <<fs, ops, fixes>>
  /\ UNCHANGED <<pkg, tsconfig, envExample, cmd, errors, warnings, vfixes, exitCode,
                 fs0, fixRuns>>

\* mkdirSync(configDir) leaves no file behind; the write that follows does
FixConfigExports ==
  /\ cmd = "fix" /\ pc = "fixConfigExports"
  /\ out' = Append(out, "config")
  /\ pc' = "fixDependencies"
  /\ IF ConfigIndexPath \notin DOMAIN fs
     THEN /\ fs' = WriteFile(fs, ConfigIndexPath, ConfigIndexTemplate)
          /\ ops' = Append(ops, Op("fixConfigExports", "write", ConfigIndexPath, NoFile))
          /\ fixes' = Append(fixes, "Created config barrel export")
     ELSE UNCHANGED <<fs, ops, fixes>>
  /\ UNCHANGED <<pkg, tsconfig, envExample, cmd, errors, warnings, vfixes, exitCode,
                 fs0, fixRuns>>

RequiredDeps == {"@types/jest", "eslint-plugin-react-hooks"}

\* the packages the loop over requiredDeps adds to devDependencies: those whose
\* entry is falsy in both tables, which an undeclared package and one declared with
\* the version "" both are
MissingDeps(p) == RequiredDeps \ (p.devDependencies \cup p.dependencies)

\* readFileSync throws when package.json is missing, JSON.parse when it is malformed
FixDependencies ==
  /\ cmd = "fix" /\ pc = "fixDependencies"
  /\ out' = Append(out, "dependencies")
  /\ IF pkg.state # "ok"
     THEN Throw /\ UNCHANGED <<pkg, ops, fixes>>
     ELSE /\ pc' = "fixTsConfig"
          /\ UNCHANGED exitCode
          /\ IF MissingDeps(pkg) # {}
             THEN /\ pkg' = [pkg EXCEPT !.devDependencies = @ \cup MissingDeps(pkg),
                                         !.emptyVersion = @ \ MissingDeps(pkg)]
                  /\ ops' = Append(ops, Op("fixDependencies", "write", PackageJsonPath, NoFile))
                  /\ \E installed \in BOOLEAN :
                        fixes' = IF installed
                                 THEN Append(fixes, "Installed missing dependencies")
                                 ELSE fixes
             ELSE UNCHANGED <<pkg, ops, fixes>>
  /\ UNCHANGED <<fs, tsconfig, envExample, cmd, errors, warnings, vfixes, fs0, fixRuns>>

\* the values of compilerOptions.paths['@/*'] that !value takes for no value
FalsyAlias == {"absent", "null"}

FixTsConfig ==
  /\ cmd = "fix" /\ pc = "fixTsConfig"
  /\ out' = Append(out, "tsconfig")
  /\ IF tsconfig.state = "malformed"
     THEN Throw /\ UNCHANGED <<tsconfig, ops, fixes>>
     ELSE /\ pc' = "fixApiRoutes"
          /\ UNCHANGED exitCode
          /\ IF tsconfig.state = "ok" /\ tsconfig.alias \in FalsyAlias
             THEN /\ tsconfig' = [tsconfig EXCEPT !.alias = "default"]
                  /\ ops' = Append(ops, Op("fixTsConfig", "write", TsconfigPath, NoFile))
                  /\ fixes' = Append(fixes, "Updated TypeScript path mappings")
             ELSE UNCHANGED <<tsconfig, ops, fixes>>
  /\ UNCHANGED <<fs, pkg, envExample, cmd, errors, warnings, vfixes, fs0, fixRuns>>

\* the file loop of fixApiRoutes over routeFiles in order: the tree and the writes
RECURSIVE RouteLoop(_, _, _)
RouteLoop(order, d, w) ==
  IF Len(order) = 0 THEN [disk |-> d, writes |-> w]
  ELSE LET f == Head(order)
       IN IF FixerRouteFinding(d[f])
          THEN RouteLoop(Tail(order), WriteFile(d, f, InsertDynamic(d[f])),
                         Append(w, Op("fixApiRoutes", "write", f, NoFile)))
          ELSE RouteLoop(Tail(order), d, w)

FixApiRoutes ==
  /\ cmd = "fix" /\ pc = "fixApiRoutes"
  /\ out' = Append(out, "routes")
  /\ pc' = "fixJsxFiles"
  /\ IF ~DirExists(fs, ApiDir)
     THEN UNCHANGED <<fs, ops, fixes>>
     ELSE \E order \in Orders(FindRouteFiles(fs)) :
            LET r == RouteLoop(order, fs, <<>>)
            IN /\ fs' = r.disk
               /\ ops' = ops \o r.writes
               /\ fixes' = IF Len(r.writes) > 0 THEN Append(fixes, "Fixed API routes") ELSE fixes
  /\ UNCHANGED <<pkg, tsconfig, envExample, cmd, errors, warnings, vfixes, exitCode,
                 fs0, fixRuns>>

\* the file loop of fixJsxFiles over tsFiles in order: the tree, the renames made, and
\* whether renameSync threw
RECURSIVE RenameLoop(_, _, _)
RenameLoop(order, d, r) ==
  IF Len(order) = 0 THEN [disk |-> d, renames |-> r, threw |-> FALSE]
  ELSE LET f == Head(order)
           newPath == ReplaceFirstTs(f)
       IN IF ~FixerShouldRename(d[f]) THEN RenameLoop(Tail(order), d, r)
          ELSE IF RenameThrows(d, f, newPath) THEN [disk |-> d, renames |-> r, threw |-> TRUE]
          ELSE RenameLoop(Tail(order), RenameFile(d, f, newPath),
                          Append(r, Op("fixJsxFiles", "rename", f, newPath)))

FixJsxFiles ==
  /\ cmd = "fix" /\ pc = "fixJsxFiles"
  /\ out' = Append(out, "jsx")
  /\ IF ~DirExists(fs, SrcDir)
     THEN pc' = "summary" /\ UNCHANGED <<fs, ops, fixes, exitCode>>
     ELSE \E order \in Orders(FindTsFiles(fs)) :
            LET r == RenameLoop(order, fs, <<>>)
            IN /\ fs' = r.disk
               /\ ops' = ops \o r.renames
               /\ IF r.threw
                  THEN Throw /\ UNCHANGED fixes
                  ELSE /\ pc' = "summary"
                       /\ UNCHANGED exitCode
                       /\ fixes' = IF Len(r.renames) > 0
                                   THEN Append(fixes, "Renamed files with JSX to .tsx")
                                   ELSE fixes
  /\ UNCHANGED <<pkg, tsconfig, envExample, cmd, errors, warnings, vfixes, fs0, fixRuns>>

\* the rest of runAllFixes, then the then() callback: process.exit(0)
Summary ==
  /\ cmd = "fix" /\ pc = "summary"
  /\ out' = Append(out, IF Len(fixes) = 0 THEN "no issues found" ELSE "applied fixes")
  /\ exitCode' = 0
  /\ pc' = "exited"
  /\ UNCHANGED <<fs, pkg, tsconfig, envExample, cmd, errors, warnings, vfixes, fixes,
                 ops, fs0, fixRuns>>

Next ==
  \/ StartValidate
  \/ CheckJsxInTsFiles
  \/ CheckApiRoutesDynamic
  \/ CheckTypeScriptConfig
  \/ CheckEnvironmentVariables
  \/ CheckPackageScripts
  \/ CheckDependencies
  \/ CheckEslintViolations
  \/ Report
  \/ StartFix
  \/ FixNextEnv
  \/ FixConfigExports
  \/ FixDependencies
  \/ FixTsConfig
  \/ FixApiRoutes
  \/ FixJsxFiles
  \/ Summary

\* --------------------------------------------------------- initial trees
AllScripts == {"dev", "build", "start", "lint", "typecheck"}
AllOptions == {"jsx", "strict", "moduleResolution"}

\* dependencies and devDependencies hold the packages declared with a version,
\* emptyVersion those that devDependencies declares with the version ""
Pkg(state, deps, dev, scripts) ==
  [state |-> state, dependencies |-> deps, devDependencies |-> dev, scripts |-> scripts,
   emptyVersion |-> {}]
PkgEmptyVersion(dev, empty) == [Pkg("ok", {}, dev, AllScripts) EXCEPT !.emptyVersion = empty]
PkgMissing == Pkg("missing", {}, {}, {})
PkgMalformed == Pkg("malformed", {}, {}, {})
PkgGood == Pkg("ok", {}, RequiredDeps, AllScripts)

Tsconfig(state, options, alias) == [state |-> state, options |-> options, alias |-> alias]
TsconfigMissing == Tsconfig("missing", {}, "absent")
TsconfigMalformed == Tsconfig("malformed", {}, "absent")
TsconfigGood == Tsconfig("ok", AllOptions, "custom")

EnvMissing == [exists |-> FALSE, content |-> <<>>]
EnvGood == [exists |-> TRUE, content |-> <<"API_KEY", "=", "v">>]

File(p, c) == [path |-> p, content |-> c]
Src(item) == << <<"src">>, item >>
RoutePath == << <<"src">>, <<"app">>, <<"api">>, <<"route", ".ts">> >>

\* sample contents: plain code, a component tag, a network call, an undeclared variable
PlainCode == <<"const", " ", "x">>
JsxCode == <<"return", " ", "<Foo", " ", "/>">>
FetchCode == <<"import ", "x", " ", "from 'y';", NL, "fetch(", "u", ")">>
EnvCode == <<"process.env.", "SECRET_TOKEN", ";">>

\* the tree that a set of files makes, when no two of them share a path
TreeOf(F) == [p \in {f.path : f \in F} |-> (CHOOSE f \in F : f.path = p).content]
Trees(F, n) ==
  {TreeOf(G) : G \in {H \in SUBSET F : Cardinality(H) <= n
                                       /\ \A f, g \in H : f.path = g.path => f = g}}

\* the files present in every tree that is not about them
BaseFiles == {File(NextEnvPath, NextEnvTemplate), File(ConfigIndexPath, ConfigIndexTemplate)}

Idle ==
  /\ cmd = "none" /\ pc = "idle"
  /\ errors = <<>> /\ warnings = <<>> /\ vfixes = <<>> /\ fixes = <<>>
  /\ out = <<>> /\ exitCode = -1 /\ ops = <<>>
  /\ fs0 = fs /\ fixRuns = 0

\* trees for the fix command: scaffold files present or not, files to rename with a
\* free or a taken destination, a ".ts" earlier in the path, a route file
FixFiles ==
  {File(NextEnvPath, NextEnvTemplate), File(ConfigIndexPath, ConfigIndexTemplate),
   File(NextEnvPath, PlainCode), File(ConfigIndexPath, PlainCode)}
  \cup {File(p, c) : p \in {Src(<<"a", ".ts">>), Src(<<"a", ".ts", "x">>),
                            Src(<<"a", ".ts", "lint", ".ts">>),
                            << <<"src">>, <<"lib", ".ts">>, <<"b", ".ts">> >>,
                            RoutePath},
                     c \in {PlainCode, JsxCode, FetchCode}}

Init ==
  /\ fs \in Trees(FixFiles, MaxFiles)
  /\ pkg \in {PkgMissing, PkgMalformed} \cup {Pkg("ok", {}, d, AllScripts) : d \in SUBSET RequiredDeps}
              \cup {PkgEmptyVersion(RequiredDeps \ {d}, {d}) : d \in RequiredDeps}
  /\ tsconfig \in {TsconfigMissing, TsconfigMalformed}
                  \cup {Tsconfig("ok", AllOptions, a) : a \in {"absent", "null", "custom"}}
  /\ envExample = EnvGood
  /\ Idle

Spec == Init /\ [][Next]_vars

\* trees for the validate command: every configuration file missing, malformed or
\* complete to a degree, source files that do or do not trip a rule
ValidateFiles ==
  {File(p, c) : p \in {Src(<<"a", ".ts">>), Src(<<"b", ".js">>), RoutePath},
                c \in {PlainCode, JsxCode, FetchCode, EnvCode}}

InitValidate ==
  /\ fs \in Trees(ValidateFiles, MaxFiles)
  /\ pkg \in {PkgMissing, PkgMalformed}
             \cup {Pkg("ok", d, RequiredDeps, s) : d \in {{}, {"react"}},
                                                  s \in {{"build", "start"}, AllScripts}}
  /\ tsconfig \in {TsconfigMissing, TsconfigMalformed}
                  \cup {Tsconfig("ok", o, "custom") : o \in {{}, AllOptions}}
  /\ envExample \in {EnvMissing, EnvGood}
  /\ Idle

SpecValidate == InitValidate /\ [][Next]_vars

\* route files of up to MaxLines lines, every configuration file in order
RouteLines ==
  { <<"import ", "x", " ", "from 'y';">>,
    <<"import ", "{", " ", "a", ",">>,
    <<"b", " ", "}", " ", "from 'y';">>,
    <<"fetch(", "u", ")">>,
    <<DynamicHead, " ", "'force-dynamic'", ";">>,
    <<DynamicHead, " ", "'auto'", ";">>,
    <<"const", " ", "x">> }

RouteContents == {Join(l) : l \in SeqsUpTo(RouteLines, MaxLines)}

InitRoute ==
  /\ fs \in {TreeOf(BaseFiles \cup {File(RoutePath, c)}) : c \in RouteContents}
  /\ pkg = PkgGood
  /\ tsconfig = TsconfigGood
  /\ envExample = EnvGood
  /\ Idle

SpecRoute == InitRoute /\ [][Next]_vars

\* route files whose lines hold the runtime operations either tool looks for
CoverLines ==
  { <<"fetch(", "u", ")">>,
    <<"fs.", "readFileSync", "(", "u", ")">>,
    <<"database", ".", "query", "(", "u", ")">>,
    <<"prisma", ".", "user">>,
    <<"mongoose", ".", "connect", "(", "u", ")">>,
    <<"process.env.", "API_KEY", ";">>,
    <<DynamicHead, " ", "'force-dynamic'", ";">> }

CoverContents == {Join(l) : l \in SeqsUpTo(CoverLines, MaxLines)}
RouteTsxPath == << <<"src">>, <<"app">>, <<"api">>, <<"route", ".ts", "x">> >>

InitCover ==
  /\ fs \in {TreeOf(BaseFiles \cup {File(p, c)}) : p \in {RoutePath, RouteTsxPath},
                                                   c \in CoverContents}
  /\ pkg = PkgGood
  /\ tsconfig = TsconfigGood
  /\ envExample = EnvGood
  /\ Idle

SpecCover == InitCover /\ [][Next]_vars

\* .env.example files of up to MaxEnvLines lines, a source file of up to MaxEnvRefs references
EnvLines ==
  { <<"API_KEY", "=", "v">>,
    <<"SECRET_TOKEN">>,
    <<"#", " ", "SECRET_TOKEN", "=", "v">>,
    <<>> }

EnvRefs ==
  { <<EnvHead, "API_KEY", ";">>,
    <<EnvHead, "SECRET_TOKEN", ";">>,
    <<EnvHead, "NEXT_PUBLIC_URL", ";">>,
    <<EnvHead, "apiKey", ";">> }

InitEnv ==
  /\ fs \in {TreeOf(BaseFiles \cup {File(Src(<<"a", ".ts">>), Flatten(r)),
                                   File(Src(<<"b", ".js">>), <<EnvHead, "SECRET_TOKEN", ";">>)})
             : r \in SeqsUpTo(EnvRefs, MaxEnvRefs)}
  /\ pkg = PkgGood
  /\ tsconfig = TsconfigGood
  /\ envExample \in {[exists |-> TRUE, content |-> Join(l)] : l \in SeqsUpTo(EnvLines, MaxEnvLines)}
  /\ Idle

SpecEnv == InitEnv /\ [][Next]_vars

\* source files of up to MaxJsxLex lexemes
JsxLexemes ==
  {"<Foo", "</Foo", "<div", ">", "return", " ", ")", "=>", "children:", "React.ReactNode", "x"}

InitJsx ==
  /\ fs \in {TreeOf(BaseFiles \cup {File(Src(<<"a", ".ts">>), c)})
             : c \in SeqsUpTo(JsxLexemes, MaxJsxLex)}
  /\ pkg = PkgGood
  /\ tsconfig = TsconfigGood
  /\ envExample = EnvGood
  /\ Idle

SpecJsx == InitJsx /\ [][Next]_vars

\* ------------------------------------------------------------------ claims
Last(q) == IF Len(q) = 0 THEN "" ELSE q[Len(q)]
Count(q, x) == Cardinality({i \in 1..Len(q) : q[i] = x})
ValidateDone == cmd = "validate" /\ pc = "exited" /\ Last(out) = "report"
SummaryLines == {"no issues found", "applied fixes"}
FixDone == cmd = "fix" /\ pc = "exited" /\ Last(out) \in SummaryLines

\* C1: when validate() completes, the exit status is 1 exactly when an error was
\* recorded and 0 otherwise, whatever the warnings; a missing tsconfig.json gives 1.
C1_ExitStatus ==
  ValidateDone =>
    /\ exitCode \in {0, 1}
    /\ exitCode = 1 <=> Len(errors) > 0
    /\ tsconfig.state = "missing" => exitCode = 1

\* a completed run whose only error is the missing tsconfig.json, among warnings
C1_Witness ==
  /\ ValidateDone
  /\ tsconfig.state = "missing"
  /\ errors = <<Finding("tsconfig", NoFile)>>
  /\ Len(warnings) > 0
  /\ exitCode = 1

\* C2: a second fix run on the tree the first one left applies no fix: its fix list
\* is empty and its summary is the "no issues found" line.
C2_SecondRunNoFix ==
  (FixDone /\ fixRuns >= 2) => (fixes = <<>> /\ Last(out) = "no issues found")

\* C3: a route file with fetch( and no directive, once written by fixApiRoutes, gives
\* no finding to the rule of the fixer nor to the rule of the validator, and the
\* validator's checkApiRoutesDynamic records no error for it.
WasFetchRoute(f) ==
  /\ f \in FindRouteFiles(fs0) /\ f \in DOMAIN fs
  /\ Contains(fs0[f], FetchLex) /\ ~HasDynamic(fs0[f])
  /\ fs[f] # fs0[f]

C3_RouteFixedPoint ==
  \A f \in DOMAIN fs0 :
     WasFetchRoute(f) =>
       /\ ~FixerRouteFinding(fs[f])
       /\ ~ValidatorRouteFinding(fs[f])
       /\ (cmd = "validate" => Finding("route-dynamic", f) \notin Range(errors))

\* the validator has checked the routes after the fixer wrote one, and found nothing
C3_Witness ==
  /\ cmd = "validate" /\ "routes" \in Range(out)
  /\ \E f \in DOMAIN fs0 : WasFetchRoute(f)
  /\ errors = <<>>

\* C4: when fixJsxFiles renames a file whose destination exists, the destination is
\* not overwritten, the .ts file stays as it was, and the failure is reported.
C4_RenameKeepsDestination ==
  [][(cmd = "fix" /\ pc = "fixJsxFiles") =>
       \A f \in FindTsFiles(fs) :
          (FixerShouldRename(fs[f]) /\ ReplaceFirstTs(f) \in DOMAIN fs) =>
            /\ fs'[ReplaceFirstTs(f)] = fs[ReplaceFirstTs(f)]
            /\ f \in DOMAIN fs' /\ fs'[f] = fs[f]
            /\ "rename failed" \in Range(out')]_vars

\* C5: checkEnvironmentVariables records exactly one warning for each file and each
\* variable the file reads as process.env.NAME that .env.example does not declare and
\* that is no NEXT_PUBLIC_ name, and none for any other pair.
ReadsVar(c, v) == \E i \in 1..(Len(c) - 1) : c[i] = EnvHead /\ c[i + 1] = v
DeclaresVar(example, v) ==
  \E i \in 1..Len(Split(example)) :
     LET l == Split(example)[i]
     IN Len(l) > 0 /\ l[1] # "#" /\ BeforeEquals(l) = <<v>>

C5_OneWarningPerPair ==
  (cmd = "validate" /\ "env" \in Range(out) /\ envExample.exists) =>
    \A f \in FindEnvFiles(fs) : \A v \in UpperNames :
       Count(warnings, Warning("env", f, v)) =
         IF ReadsVar(fs[f], v) /\ ~DeclaresVar(envExample.content, v) /\ v \notin NextPublicNames
         THEN 1 ELSE 0

\* C6: checkJsxInTsFiles records a JSX error for every scanned .ts file with an
\* opening tag that begins with an uppercase letter, and none for a scanned .ts file
\* without any angle bracket.
HasUpperOpeningTag(c) ==
  \E i, j \in 1..Len(c) : i < j /\ c[i] \in UpperTagOpen /\ c[j] \in {">", "/>"}

C6_JsxDetection ==
  (cmd = "validate" /\ "jsx" \in Range(out)) =>
    \A f \in FindTsFiles(fs) :
       /\ HasUpperOpeningTag(fs[f]) => Finding("jsx", f) \in Range(errors)
       /\ ~Contains(fs[f], AngleLex) => Finding("jsx", f) \notin Range(errors)

\* C7: the fix command always exits with status 0, its summary printed before.
C7_FixAlwaysSummarises ==
  (cmd = "fix" /\ pc = "exited") => (exitCode = 0 /\ Last(out) \in SummaryLines)

\* C8: every validate run executes the seven checks in the fixed order, none skipped,
\* and reports after the last.
CheckOrder ==
  <<"jsx", "routes", "tsconfig", "env", "scripts", "dependencies", "eslint", "report">>

C8_AllChecksRun ==
  cmd = "validate" =>
    /\ IsPrefix(out, CheckOrder)
    /\ pc = "exited" => out = CheckOrder

\* C9: the lines fixApiRoutes splices in stand right after the last import statement
\* (at the top without one), no line of an import statement follows them, and the
\* original lines keep their order.
ImportEndLex == {"from 'y';"}
\* the last line of the import statement that begins on line s
ImportEnd(lines, s) ==
  LET E == {k \in s..Len(lines) : Contains(lines[k], ImportEndLex)}
  IN IF E = {} THEN Len(lines) ELSE Min(E)
LastImportEnd(lines) ==
  LET S == {s \in 1..Len(lines) : StartsWithImport(lines[s])}
  IN IF S = {} THEN 0 ELSE Max({ImportEnd(lines, s) : s \in S})
\* every import statement is closed, and nothing closes one that was not opened
WellFormedImports(lines) ==
  /\ \A s \in 1..Len(lines) :
        StartsWithImport(lines[s]) => \E k \in s..Len(lines) : Contains(lines[k], ImportEndLex)
  /\ \A k \in 1..Len(lines) :
        Contains(lines[k], ImportEndLex) =>
          \E s \in 1..k : StartsWithImport(lines[s]) /\ ImportEnd(lines, s) = k

C9_InsertAfterImports ==
  (cmd = "fix" /\ "routes" \in Range(out)) =>
    \A i \in 1..Len(ops) :
       (ops[i].step = "fixApiRoutes" /\ ops[i].path \in DOMAIN fs
        /\ WellFormedImports(Split(fs0[ops[i].path]))) =>
         LET old == Split(fs0[ops[i].path])
         IN fs[ops[i].path] = Join(Splice(old, LastImportEnd(old), DynamicLines))

\* C10: a fix step records an entry exactly when it has written or renamed a file.
StepEntry ==
  [fixNextEnv |-> "Created Next.js TypeScript declarations",
   fixConfigExports |-> "Created config barrel export",
   fixDependencies |-> "Installed missing dependencies",
   fixTsConfig |-> "Updated TypeScript path mappings",
   fixApiRoutes |-> "Fixed API routes",
   fixJsxFiles |-> "Renamed files with JSX to .tsx"]

C10_EntryIffChange ==
  cmd = "fix" =>
    \A st \in DOMAIN StepEntry :
       (\E i \in 1..Len(ops) : ops[i].step = st) <=> (StepEntry[st] \in Range(fixes))

\* C11: the scaffold and JSON-patch steps leave a file that already satisfies them
\* alone: fixNextEnv and fixConfigExports write nothing when their file exists,
\* fixTsConfig writes nothing and keeps the value when paths['@/*'] is present, and
\* fixDependencies writes nothing when package.json declares both required packages.
DeclaredDeps(p) == p.dependencies \cup p.devDependencies \cup p.emptyVersion

C11_SatisfiedFilesUntouched ==
  [][cmd = "fix" =>
       /\ (pc = "fixNextEnv" /\ NextEnvPath \in DOMAIN fs) => (fs' = fs /\ ops' = ops)
       /\ (pc = "fixConfigExports" /\ ConfigIndexPath \in DOMAIN fs) => (fs' = fs /\ ops' = ops)
       /\ (pc = "fixTsConfig" /\ tsconfig.state = "ok" /\ tsconfig.alias # "absent") =>
            (tsconfig' = tsconfig /\ ops' = ops)
       /\ (pc = "fixDependencies" /\ pkg.state = "ok" /\ RequiredDeps \subseteq DeclaredDeps(pkg)) =>
            (pkg' = pkg /\ ops' = ops)]_vars

\* C12: every rename of fixJsxFiles changes the suffix only: the destination is the
\* source path with its final ".ts" turned into ".tsx", also when ".ts" occurs earlier
\* in the path, and the destination then holds the content the source held.
WithTsxSuffix(p) ==
  LET name == p[Len(p)]
  IN IF Len(name) > 0 /\ name[Len(name)] = ".ts"
     THEN [p EXCEPT ![Len(p)] = Append(name, "x")]
     ELSE p

C12_RenameChangesSuffixOnly ==
  [][(cmd = "fix" /\ pc = "fixJsxFiles") =>
       \A i \in (Len(ops) + 1)..Len(ops') :
          ops'[i].kind = "rename" =>
            /\ ops'[i].to = WithTsxSuffix(ops'[i].path)
            /\ (ops'[i].path \in DOMAIN fs /\ ops'[i].to \in DOMAIN fs') =>
                 fs'[ops'[i].to] = fs[ops'[i].path]]_vars

\* C13: the fixer's route rule covers the validator's: when a fixer run has completed,
\* no route.ts or route.tsx file under src/app/api is one the validator flags for a
\* missing force-dynamic directive, and a validator run on a tree that a completed
\* fixer run has left records no error of checkApiRoutesDynamic.
FixRunsComplete ==
  /\ pkg.state = "ok" /\ tsconfig.state # "malformed"
  /\ \A f \in FindTsFiles(fs) : ~FixerShouldRename(fs[f])

C13_FixerCoversValidator ==
  /\ FixDone => \A f \in FindRouteFiles(fs) : ~ValidatorRouteFinding(fs[f])
  /\ (cmd = "validate" /\ fixRuns >= 1 /\ FixRunsComplete /\ "routes" \in Range(out)) =>
       \A i \in 1..Len(errors) : errors[i].rule # "route-dynamic"

=============================================================================
